---- MODULE Spec2Model ----
(***************************************************************************)
(* Manus ERP admin panel: the Dashboard, Products, Inventory and OrderList *)
(* pages of the client, the hosted store they read and write (tables      *)
(* inventory_items, stock_movements, orders, order_items, products,       *)
(* categories), its change notifications and the inventory-adjust         *)
(* endpoint.                                                               *)
(*                                                                         *)
(* A client is one browser tab, modelled with the state of its page; the  *)
(* router mounts one page at a time.  Other sessions (other tabs, other   *)
(* users of the same store) run the same handlers; of them only the       *)
(* requests that reach the store are modelled.                            *)
(* Every asynchronous handler (handleAdjust, handleUpdateStatus,           *)
(* loadInventory, loadOrders) is a record in the bag `calls` from the      *)
(* moment it awaits the store until its continuation has run; the record   *)
(* holds the handler's local variables.                                    *)
(*                                                                         *)
(* Quantities are whole units.  The text of the quantity field is a        *)
(* sequence of characters; the field is an <input type="number">, so its   *)
(* text is empty or a decimal numeral.                                     *)
(***************************************************************************)
EXTENDS Integers, Sequences, FiniteSets, Bags, TLC

\* ------------------------------------------------------------------ bounds
Items == {1, 2}
Clients == {"a"}
Orders == {1}
\* adjusts committed or in flight
MaxAdjusts == 2
\* asynchronous handlers in flight, all clients together
MaxInFlight == 2
\* loadDashboardData handlers in flight
MaxLoads == 1
\* pages a client mounts
MaxMounts == 3

\* ------------------------------------------------------- program constants
Statuses == {"pending", "confirmed", "preparing", "ready", "completed", "cancelled"}
TerminalStatuses == {"completed", "cancelled"}
MovementTypes == {"IN", "OUT", "ADJUST"}
Pages == {"dashboard", "products", "inventory", "orders"}
NoItem == 0

\* texts the quantity field can hold
QtyTexts == { <<>>, <<"0">>, <<"2">>, <<"-", "2">> }

\* stock of each item when the clients start, and the movements that made it
InitialStock == [i \in Items |-> IF i = 1 THEN 1 ELSE 0]
InitialMovements ==
    << [inventory_item_id |-> 1, qty_change |-> 1, movement_type |-> "IN"] >>

\* ------------------------------------------------------------ JS numbers
DigitChars == <<"0", "1", "2", "3", "4", "5", "6", "7", "8", "9">>
IsDigit(ch) == \E d \in 1..10 : DigitChars[d] = ch
DigitValue(ch) == (CHOOSE d \in 1..10 : DigitChars[d] = ch) - 1

RECURSIVE LeadingDigits(_)
LeadingDigits(s) ==
    IF s = <<>> \/ ~IsDigit(Head(s)) THEN <<>>
    ELSE <<Head(s)>> \o LeadingDigits(Tail(s))

RECURSIVE DigitsValue(_)
DigitsValue(ds) ==
    IF ds = <<>> THEN 0
    ELSE 10 * DigitsValue(SubSeq(ds, 1, Len(ds) - 1)) + DigitValue(ds[Len(ds)])

\* a JS number: NaN, or a whole number
NaN == [isNaN |-> TRUE, value |-> 0]
Num(n) == [isNaN |-> FALSE, value |-> n]
IsNaN(x) == x.isNaN

\* parseFloat: optional sign, then the longest run of digits; NaN when there is none
ParseFloat(s) ==
    LET signed == s # <<>> /\ Head(s) \in {"-", "+"}
        body == IF signed THEN Tail(s) ELSE s
        ds == LeadingDigits(body)
    IN  IF ds = <<>> THEN NaN
        ELSE IF signed /\ Head(s) = "-" THEN Num(0 - DigitsValue(ds))
        ELSE Num(DigitsValue(ds))

\* Math.abs, and unary minus
MathAbs(x) == IF IsNaN(x) THEN NaN ELSE Num(IF x.value < 0 THEN 0 - x.value ELSE x.value)
Neg(x) == IF IsNaN(x) THEN NaN ELSE Num(0 - x.value)
Abs(n) == IF n < 0 THEN 0 - n ELSE n

\* ------------------------------------------------------ Inventory.tsx, pure
\* if (isNaN(qtyChange) || qtyChange === 0) { toast.error(...); return; }
QtyRejectedNaNOnly(qtyChange) == IsNaN(qtyChange)
QtyRejected(qtyChange) == IsNaN(qtyChange) \/ qtyChange = Num(0)

\* movement_type === 'OUT' ? -Math.abs(qtyChange) : Math.abs(qtyChange)
ActualQtyChangeUnsigned(movement_type, qtyChange) == MathAbs(qtyChange)
ActualQtyChangeKeepSign(movement_type, qtyChange) ==
    IF movement_type = "OUT" THEN Neg(MathAbs(qtyChange)) ELSE qtyChange
ActualQtyChange(movement_type, qtyChange) ==
    IF movement_type = "OUT" THEN Neg(MathAbs(qtyChange)) ELSE MathAbs(qtyChange)

\* JSON.stringify of a number that is not NaN, read back by the endpoint
JsonNumber(x) == x.value

Payload(item, movement_type, actualQtyChange) ==
    [inventory_item_id |-> item, qty_change |-> JsonNumber(actualQtyChange),
     movement_type |-> movement_type]

\* toasts: level and text (English)
ToastNone == << >>
ToastEnterQty == <<"error", "Please enter quantity">>
ToastAdjusted == <<"success", "Stock adjusted successfully">>
ToastAdjustError(message) == <<"error", "Error: ", message>>
ToastStatusUpdated == <<"success", "Status updated successfully">>
ToastStatusFailed == <<"error", "Failed to update status">>
ToastLoadInventoryFailed == <<"error", "Failed to load inventory">>
ToastLoadOrdersFailed == <<"error", "Failed to load orders">>

\* ------------------------------------------------- stock ledger (endpoint)
\* record(): rejected when the change is zero or would drive stock_qty negative
LedgerCheckNoFloor(cur, q) == IF q = 0 THEN "ValidationError" ELSE "ok"
LedgerCheck(cur, q) ==
    IF q = 0 THEN "ValidationError"
    ELSE IF cur + q < 0 THEN "InsufficientStock"
    ELSE "ok"

\* the cached stock_qty is incremented by exactly the signed change
LedgerApplyMagnitude(cur, q) == cur + Abs(q)
LedgerApply(cur, q) == cur + q

\* a new immutable movement is appended
LedgerAppendNothing(movs, p) == movs
LedgerAppend(movs, p) ==
    Append(movs, [inventory_item_id |-> p.inventory_item_id,
                  qty_change |-> p.qty_change,
                  movement_type |-> p.movement_type])

RECURSIVE SumMovements(_, _)
SumMovements(movs, item) ==
    IF movs = <<>> THEN 0
    ELSE (IF Head(movs).inventory_item_id = item THEN Head(movs).qty_change ELSE 0)
         + SumMovements(Tail(movs), item)

\* ------------------------------------------------------ OrderList.tsx, pure
\* {order.status !== 'completed' && order.status !== 'cancelled' && (<Select ...>)}
SelectorShownAlways(status) == TRUE
SelectorShown(status) == status \notin TerminalStatuses
\* the <SelectItem> values of the row's selector
SelectorOptions == Statuses

\* .from('orders').update({ status: newStatus }).eq('id', orderId)
UpdateRowForwardOnly(cur, newStatus) ==
    IF cur = "pending" /\ newStatus = "ready" THEN cur ELSE newStatus
UpdateRow(cur, newStatus) == newStatus
\* the row after the statement: only the column named in update({...}) is written
UpdateStatementAllColumns(row, newStatus) ==
    [row EXCEPT !.status = UpdateRow(@, newStatus), !.total = 0]
UpdateStatement(row, newStatus) == [row EXCEPT !.status = UpdateRow(@, newStatus)]

\* -------------------------------------------------- store contents at start
\* ids the orders table can hold (serial)
OrderIds == {1, 2}
\* ids the products table can hold (serial), names and prices of the form
ProductIds == {1}
ProductNames == {"chai"}
PriceTexts == { <<"2">> }
\* the instants of the clock, and the length of a day
Times == {0, 1, 2}
TicksPerDay == 2
\* tables whose changes are published
Tables == {"orders", "inventory_items", "products"}

\* inventory_items.reorder_level, never written by the application
ReorderLevel == [i \in Items |-> 1]
InitialProducts == (1 :> [name |-> "tea", price |-> 2, is_active |-> TRUE])
\* orders.subtotal, discount and tax of the orders at start (total is 2)
InitialAmounts == [o \in Orders |-> [subtotal |-> 2, discount |-> 1, tax |-> 1]]
InitialOrderItems ==
    [o \in Orders |-> << [product_id |-> 1, name |-> "tea", qty |-> 1, total |-> 2] >>]
\* categories with is_active, never written by these pages
CategoryRows == <<"drinks">>

\* ------------------------------------------------------- Dashboard.tsx, pure
\* Number.prototype.toString of a whole number
RECURSIVE NaturalToString(_)
NaturalToString(n) ==
    IF n < 10 THEN <<DigitChars[n + 1]>>
    ELSE NaturalToString(n \div 10) \o <<DigitChars[(n % 10) + 1]>>
NumberToString(n) == IF n < 0 THEN <<"-">> \o NaturalToString(0 - n) ELSE NaturalToString(n)

\* x <= y and x + y on JS numbers
LessOrEqual(x, y) == ~IsNaN(x) /\ ~IsNaN(y) /\ x.value <= y.value
Plus(x, y) == IF IsNaN(x) \/ IsNaN(y) THEN NaN ELSE Num(x.value + y.value)
\* x || 0
OrZero(x) == IF IsNaN(x) \/ x = Num(0) THEN 0 ELSE x.value

\* startOfDay(date)
StartOfDay(t) == t - (t % TicksPerDay)

\* ordersData.reduce((sum, order) => sum + parseFloat(order.total.toString()), 0) || 0
RECURSIVE Reduce(_, _)
Reduce(ordersData, sum) ==
    IF ordersData = <<>> THEN sum
    ELSE Reduce(Tail(ordersData),
                Plus(sum, ParseFloat(NumberToString(Head(ordersData).total))))
TodaySalesCounting(ordersData) == Len(ordersData)
TodaySales(ordersData) == OrZero(Reduce(ordersData, Num(0)))
\* ordersData.length || 0
TodayOrders(ordersData) == Len(ordersData)

\* item => parseFloat(item.stock_qty.toString()) <= parseFloat(item.reorder_level.toString())
LowStockFilterStrict(item) ==
    /\ LessOrEqual(ParseFloat(NumberToString(item.stock_qty)),
                   ParseFloat(NumberToString(item.reorder_level)))
    /\ item.stock_qty # item.reorder_level
LowStockFilter(item) ==
    LessOrEqual(ParseFloat(NumberToString(item.stock_qty)),
                ParseFloat(NumberToString(item.reorder_level)))
\* inventoryData.filter(...).length || 0
LowStockItems(inventoryData) ==
    Cardinality({i \in DOMAIN inventoryData : LowStockFilter(inventoryData[i])})

\* ordersData.slice(0, 10)
RecentLimit == 10
Slice(ordersData) ==
    SubSeq(ordersData, 1, IF Len(ordersData) < RecentLimit THEN Len(ordersData)
                          ELSE RecentLimit)

\* the argument a postgres_changes callback is called with
ChangeEvent(table) ==
    [schema |-> IF table = "orders" THEN "pos" ELSE "erp", table |-> table]
\* the callbacks are `() => { load...(); }`: what the page shows stays as it is
OnPostgresChangesShowPayload(shown, payload) == payload
OnPostgresChanges(shown, payload) == shown

\* the sequences an `.order('created_at', { ascending: false })` can return for
\* the rows S: rows with equal created_at come in any order
OrderedByCreatedAt(S) ==
    {rows \in [1..Cardinality(S) -> S] :
        /\ \A i, j \in 1..Cardinality(S) : i # j => rows[i] # rows[j]
        /\ \A i, j \in 1..Cardinality(S) : i < j => rows[i].created_at >= rows[j].created_at}

NoStats == [todaySales |-> 0, todayOrders |-> 0, lowStockItems |-> 0, totalProducts |-> 0]

\* Inventory.tsx: isLowStock
IsLowStock(item) ==
    LessOrEqual(ParseFloat(NumberToString(item.stock_qty)),
                ParseFloat(NumberToString(item.reorder_level)))

\* ------------------------------------------------------- Products.tsx, pure
\* what the product form can hold (the price field holds a numeral)
ProductForms == [name : ProductNames, price : PriceTexts, is_active : BOOLEAN]
\* handleSave: productData
ProductData(formData) ==
    [name |-> formData.name, price |-> JsonNumber(ParseFloat(formData.price)),
     is_active |-> formData.is_active]

\* .from('products').update(productData).eq('id', id), on the tables db
DbUpdateProductRenamingLines(db, id, productData) ==
    [db EXCEPT !.products = IF id \in DOMAIN db.products
                            THEN [db.products EXCEPT ![id] = productData]
                            ELSE db.products,
               !.order_items = [o \in DOMAIN db.order_items |->
                   [l \in DOMAIN db.order_items[o] |->
                       IF db.order_items[o][l].product_id = id
                       THEN [db.order_items[o][l] EXCEPT !.name = productData.name]
                       ELSE db.order_items[o][l]]]]
DbUpdateProduct(db, id, productData) ==
    IF id \in DOMAIN db.products
    THEN [db EXCEPT !.products = [db.products EXCEPT ![id] = productData]]
    ELSE db
\* .from('products').insert(productData): the row gets a free id
DbInsertProduct(db, productData) ==
    LET id == CHOOSE x \in ProductIds \ DOMAIN db.products :
                  \A y \in ProductIds \ DOMAIN db.products : x <= y
    IN  [db EXCEPT !.products = db.products @@ (id :> productData)]
\* .from('products').delete().eq('id', id)
DbDeleteProductWithStock(db, id) ==
    [db EXCEPT !.products = [p \in DOMAIN db.products \ {id} |-> db.products[p]],
               !.stock_qty = [i \in DOMAIN db.stock_qty |->
                                 IF i = id THEN 0 ELSE db.stock_qty[i]]]
DbDeleteProduct(db, id) ==
    [db EXCEPT !.products = [p \in DOMAIN db.products \ {id} |-> db.products[p]]]

ToastLoadProductsFailed == <<"error", "Failed to load products">>
ToastProductUpdated == <<"success", "Product updated successfully">>
ToastProductAdded == <<"success", "Product added successfully">>
ToastProductDeleted == <<"success", "Product deleted successfully">>
ToastSaveError == <<"error", "Error saving product">>
ToastDeleteError == <<"error", "Error deleting product">>

\* ------------------------------------------------------------------- state
VARIABLES
    stock_qty,      \* store: inventory_items.stock_qty, per item
    movements,      \* store: stock_movements, in commit order
    order_status,   \* store: orders.status, per order
    page,           \* client: the mounted page
    instance,       \* client: the number of pages mounted so far
    channels,       \* client: the realtime channels subscribed
    loading,        \* client: `loading` of the mounted page
    inventory,      \* client: Inventory's `inventory` (item -> stock_qty shown)
    orders,         \* client: OrderList's `orders` (order -> status shown)
    showDialog,     \* client: Inventory's `showDialog`
    selectedItem,   \* client: Inventory's `selectedItem` (its id)
    toast,          \* client: the last toast shown
    calls,          \* asynchronous handlers in flight
    accepted,       \* per item, the sum of qty_change of the adjusts answered 2xx
    order_created_at, \* store: orders.created_at, per order
    order_total,    \* store: orders.total, per order
    order_amounts,  \* store: orders.subtotal, discount and tax, per order
    order_items,    \* store: order_items, per order the rows of its lines
    products,       \* store: products, per id the row
    now,            \* the clock
    pending,        \* per client, the tables with an undelivered change event
    versions,       \* the contents the store has had while a loadDashboardData ran
    stats,          \* client: Dashboard's `stats`
    recentOrders,   \* client: Dashboard's `recentOrders`
    productList,    \* client: Products' `products`
    categories,     \* client: Products' `categories`
    editingProduct  \* client: Products' `editingProduct` (its id)

store == <<stock_qty, movements, order_status>>
mounted == <<page, instance, channels>>
view == <<mounted, loading, inventory, orders, showDialog, selectedItem, toast>>
catalog == <<order_created_at, order_total, order_amounts, order_items, products>>
realtime == <<pending, versions>>
panel == <<stats, recentOrders, productList, categories, editingProduct>>
vars == <<stock_qty, movements, order_status, page, instance, channels, loading, inventory, orders,
          showDialog, selectedItem, toast, calls, accepted,
          order_created_at, order_total, order_amounts, order_items, products, now,
          pending, versions, stats, recentOrders, productList, categories,
          editingProduct>>

Add(c) == calls (+) SetToBag({c})
Del(c) == calls (-) SetToBag({c})
Swap(old, new) == (calls (-) SetToBag({old})) (+) SetToBag({new})
InFlight == BagToSet(calls)
Room == BagCardinality(calls) < MaxInFlight

EmptyList == << >>

\* a handler belongs to the page instance whose render created it
LoadInventoryCall(c) ==
    [kind |-> "loadInventory", client |-> c, instance |-> instance[c],
     stage |-> "inventory_items", data |-> EmptyList]
LoadOrdersCall(c) ==
    [kind |-> "loadOrders", client |-> c, instance |-> instance[c],
     stage |-> "orders", data |-> EmptyList]
LoadCall(c, p) == IF p = "inventory" THEN LoadInventoryCall(c) ELSE LoadOrdersCall(c)
\* loadDashboardData: `today` is taken when the handler starts
LoadDashboardCall(c) ==
    [kind |-> "loadDashboardData", client |-> c, instance |-> instance[c],
     stage |-> "orders",
     today |-> StartOfDay(now), data |-> EmptyList]
\* loadProducts and loadCategories; `group` tells the ones loadData awaits together
LoadProductsCall(c, group) ==
    [kind |-> "loadProducts", client |-> c, instance |-> instance[c],
     stage |-> "products", group |-> group]
LoadCategoriesCall(c) ==
    [kind |-> "loadCategories", client |-> c, instance |-> instance[c],
     stage |-> "categories",
     group |-> "loadData"]
\* the call as started from a closure of page instance n
Of(call, n) == [call EXCEPT !.instance = n]
\* the page instance of handler k is the mounted one; a state setter of an
\* unmounted instance changes nothing
Mounted(k) == k.instance = instance[k.client]
SetState(k, state, value) ==
    IF Mounted(k) THEN [state EXCEPT ![k.client] = value] ELSE state

\* loading after the load of handler k ended: `finally { setLoading(false) }`
\* runs whether the queries succeeded (ok) or one of them threw
FinallyOnSuccess(k, ok) == IF ok THEN SetState(k, loading, FALSE) ELSE loading
Finally(k, ok) == SetState(k, loading, FALSE)

\* the handlers the first effect of a page starts
MountCalls(c, p) ==
    CASE p = "dashboard" -> {LoadDashboardCall(c)}
      [] p = "products" -> {LoadProductsCall(c, "loadData"), LoadCategoriesCall(c)}
      [] OTHER -> {LoadCall(c, p)}

AdjustCalls == {k \in InFlight : k.kind = "adjust"}
UpdateCalls == {k \in InFlight : k.kind = "update"}
DashboardCalls == {k \in InFlight : k.kind = "loadDashboardData"}
DashboardLoadsInFlight == BagCardinality([k \in DashboardCalls |-> CopiesIn(k, calls)])
AdjustsInFlight == BagCardinality([k \in AdjustCalls |-> CopiesIn(k, calls)])

\* the rows a select('*') of inventory_items returns
InventoryRows ==
    [i \in Items |-> [stock_qty |-> stock_qty[i], reorder_level |-> ReorderLevel[i]]]
\* the row of an order
OrderRow(o) ==
    [id |-> o, created_at |-> order_created_at[o], total |-> order_total[o],
     status |-> order_status[o], subtotal |-> order_amounts[o].subtotal,
     discount |-> order_amounts[o].discount, tax |-> order_amounts[o].tax]
\* the row of an order as a statement on orders leaves it
WriteOrderRow(row) ==
    /\ order_status' = [order_status EXCEPT ![row.id] = row.status]
    /\ order_created_at' = [order_created_at EXCEPT ![row.id] = row.created_at]
    /\ order_total' = [order_total EXCEPT ![row.id] = row.total]
    /\ order_amounts' = [order_amounts EXCEPT ![row.id] =
                            [subtotal |-> row.subtotal, discount |-> row.discount,
                             tax |-> row.tax]]

\* the channels the effect of a page subscribes (postgres_changes, event '*')
Channels(p) ==
    CASE p = "dashboard" -> {[name |-> "dashboard-orders", table |-> "orders"],
                             [name |-> "dashboard-inventory", table |-> "inventory_items"]}
      [] p = "inventory" -> {[name |-> "inventory-changes", table |-> "inventory_items"]}
      [] p = "orders" -> {[name |-> "orders-list", table |-> "orders"]}
      [] p = "products" -> {}
\* the tables a mounted page is subscribed to
Subscriptions(p) == {ch.table : ch \in Channels(p)}
\* the effect of page instance n of page p: the channels it subscribes, and the
\* ones its cleanup removes
Subscribe(p, n) ==
    {[name |-> ch.name, table |-> ch.table, instance |-> n] : ch \in Channels(p)}
CleanupOrdersOnly(p, n) == {ch \in Subscribe(p, n) : ch.table = "orders"}
Cleanup(p, n) == Subscribe(p, n)

\* the tables a statement on products is executed on, and their new contents
Database ==
    [products |-> products, order_items |-> order_items, order_total |-> order_total,
     stock_qty |-> stock_qty]
Commit(db) ==
    /\ products' = db.products
    /\ order_items' = db.order_items
    /\ order_total' = db.order_total
    /\ stock_qty' = db.stock_qty

\* what a handler starts after its request succeeded: loadInventory() at the
\* end of handleAdjust, loadOrders() at the end of handleUpdateStatus
ReloadAfterNothing(k) == {}
ReloadAfter(k) ==
    IF k.kind = "adjust" THEN {Of(LoadInventoryCall(k.client), k.instance)}
    ELSE {Of(LoadOrdersCall(k.client), k.instance)}

\* loadData: Promise.all of loadProducts and loadCategories has settled once
\* call k ends, and setLoading(false) follows
LoadDataSettles(k) ==
    /\ k.group = "loadData"
    /\ ~\E k2 \in InFlight \ {k} :
           /\ k2.kind \in {"loadProducts", "loadCategories"} /\ k2.group = "loadData"
           /\ k2.client = k.client /\ k2.instance = k.instance
SetLoadingAfter(k) ==
    loading' = IF LoadDataSettles(k) THEN SetState(k, loading, FALSE) ELSE loading

\* what the figures of the dashboard are computed from
Snapshot ==
    [created_at |-> order_created_at, total |-> order_total,
     low |-> {i \in Items : stock_qty[i] <= ReorderLevel[i]},
     active |-> {p \in DOMAIN products : products[p].is_active}]

\* a row of the table was inserted, updated or deleted: the store publishes the
\* change to the subscribed pages (undelivered events of one table are kept as one)
Changed(table) ==
    /\ pending' = [c \in Clients |->
                      pending[c] \cup ({table} \cap {ch.table : ch \in channels[c]})]
    /\ versions' = IF DashboardCalls = {} THEN {Snapshot'}
                   ELSE versions \cup {Snapshot'}

Init ==
    /\ stock_qty = InitialStock
    /\ movements = InitialMovements
    /\ order_status = [o \in Orders |-> "pending"]
    /\ now = 0
    /\ page \in [Clients -> Pages]
    /\ instance = [c \in Clients |-> 1]
    /\ channels = [c \in Clients |-> Subscribe(page[c], 1)]
    /\ loading = [c \in Clients |-> TRUE]
    /\ inventory = [c \in Clients |-> EmptyList]
    /\ orders = [c \in Clients |-> EmptyList]
    /\ showDialog = [c \in Clients |-> FALSE]
    /\ selectedItem = [c \in Clients |-> NoItem]
    /\ toast = [c \in Clients |-> ToastNone]
    /\ order_created_at = [o \in Orders |-> 0]
    /\ order_total = [o \in Orders |-> 2]
    /\ order_amounts = InitialAmounts
    /\ order_items = InitialOrderItems
    /\ products = InitialProducts
    /\ calls = SetToBag(UNION {MountCalls(c, page[c]) : c \in Clients})
    /\ accepted = [i \in Items |-> 0]
    /\ pending = [c \in Clients |-> {}]
    /\ versions = {Snapshot}
    /\ stats = [c \in Clients |-> NoStats]
    /\ recentOrders = [c \in Clients |-> EmptyList]
    /\ productList = [c \in Clients |-> EmptyList]
    /\ categories = [c \in Clients |-> EmptyList]
    /\ editingProduct = [c \in Clients |-> NoItem]

\* ---------------------------------------------------------- Inventory page
\* loadInventory: .from('inventory_items').select('*') answered by the store
SelectInventoryItems(k) ==
    /\ k \in InFlight /\ k.kind = "loadInventory" /\ k.stage = "inventory_items"
    /\ calls' = Swap(k, [k EXCEPT !.stage = "products", !.data = stock_qty])
    /\ UNCHANGED <<store, view, accepted>>
    /\ UNCHANGED <<catalog, panel, realtime, now>>

\* loadInventory: .from('products').select('*') answered; setInventory(combined);
\* finally setLoading(false)
SelectProducts(k) ==
    /\ k \in InFlight /\ k.kind = "loadInventory" /\ k.stage = "products"
    /\ calls' = Del(k)
    /\ inventory' = SetState(k, inventory, k.data)
    /\ loading' = Finally(k, TRUE)
    /\ UNCHANGED <<store, mounted, orders, showDialog, selectedItem, toast, accepted>>
    /\ UNCHANGED <<catalog, panel, realtime, now>>

\* loadInventory: either query answers with an error; catch, finally
LoadInventoryFails(k) ==
    /\ k \in InFlight /\ k.kind = "loadInventory"
    /\ calls' = Del(k)
    /\ toast' = [toast EXCEPT ![k.client] = ToastLoadInventoryFailed]
    /\ loading' = Finally(k, FALSE)
    /\ UNCHANGED <<store, mounted, inventory, orders, showDialog, selectedItem, accepted>>
    /\ UNCHANGED <<catalog, panel, realtime, now>>

\* the Adjust button of a listed item
HandleOpenDialog(c, item) ==
    /\ page[c] = "inventory" /\ ~loading[c]
    /\ item \in DOMAIN inventory[c]
    /\ selectedItem' = [selectedItem EXCEPT ![c] = item]
    /\ showDialog' = [showDialog EXCEPT ![c] = TRUE]
    /\ UNCHANGED <<store, mounted, loading, inventory, orders, toast, calls, accepted>>
    /\ UNCHANGED <<catalog, panel, realtime, now>>

\* the dialog's Cancel button, or onOpenChange(false)
CloseDialog(c) ==
    /\ page[c] = "inventory" /\ showDialog[c]
    /\ showDialog' = [showDialog EXCEPT ![c] = FALSE]
    /\ UNCHANGED <<store, mounted, loading, inventory, orders, selectedItem, toast,
                   calls, accepted>>
    /\ UNCHANGED <<catalog, panel, realtime, now>>

\* the dialog's Confirm button, with the form holding text and movement_type:
\* handleAdjust up to its await of fetch
HandleAdjust(c, text, movement_type) ==
    /\ page[c] = "inventory" /\ showDialog[c]
    /\ selectedItem[c] # NoItem
    /\ LET qtyChange == ParseFloat(text)
       IN  IF QtyRejected(qtyChange)
           THEN /\ toast' = [toast EXCEPT ![c] = ToastEnterQty]
                /\ UNCHANGED calls
           ELSE /\ Room
                /\ (Len(movements) - Len(InitialMovements)) + AdjustsInFlight < MaxAdjusts
                /\ calls' = Add([kind |-> "adjust", client |-> c,
                                 instance |-> instance[c],
                                 stage |-> "sent", qtyChange |-> qtyChange,
                                 payload |-> Payload(selectedItem[c], movement_type,
                                     ActualQtyChange(movement_type, qtyChange)),
                                 ok |-> FALSE, error |-> ""])
                /\ UNCHANGED toast
    /\ UNCHANGED <<store, mounted, loading, inventory, orders, showDialog, selectedItem,
                   accepted>>
    /\ UNCHANGED <<catalog, panel, realtime, now>>

\* POST /erp_inventory_adjust: the ledger's atomic record-and-update
EndpointVerdict(p) == LedgerCheck(stock_qty[p.inventory_item_id], p.qty_change)
LedgerRecord(p) ==
    /\ stock_qty' = [stock_qty EXCEPT ![p.inventory_item_id] =
                         LedgerApply(@, p.qty_change)]
    /\ movements' = LedgerAppend(movements, p)

\* the endpoint executes the request of call k and answers
AdjustEndpoint(k) ==
    /\ k \in InFlight /\ k.kind = "adjust" /\ k.stage = "sent"
    /\ IF EndpointVerdict(k.payload) = "ok"
       THEN /\ LedgerRecord(k.payload)
            /\ calls' = Swap(k, [k EXCEPT !.stage = "response", !.ok = TRUE])
       ELSE /\ UNCHANGED <<stock_qty, movements>>
            /\ calls' = Swap(k, [k EXCEPT !.stage = "response", !.ok = FALSE,
                                          !.error = EndpointVerdict(k.payload)])
    /\ UNCHANGED <<order_status, view, accepted>>
    /\ UNCHANGED <<catalog, panel, now>>
    /\ IF EndpointVerdict(k.payload) = "ok"
       THEN Changed("inventory_items") ELSE UNCHANGED realtime

\* the endpoint executes a request of another session: its handleAdjust ran with
\* the item selected and the form holding text and movement_type
OtherSessionAdjust(item, text, movement_type) ==
    /\ ~QtyRejected(ParseFloat(text))
    /\ (Len(movements) - Len(InitialMovements)) + AdjustsInFlight < MaxAdjusts
    /\ LET p == Payload(item, movement_type,
                        ActualQtyChange(movement_type, ParseFloat(text)))
       IN  /\ EndpointVerdict(p) = "ok"
           /\ LedgerRecord(p)
           /\ accepted' = [accepted EXCEPT ![item] = @ + p.qty_change]
    /\ UNCHANGED <<order_status, view, calls>>
    /\ UNCHANGED <<catalog, panel, now>>
    /\ Changed("inventory_items")

\* the store cannot be reached: fetch rejects or answers 5xx, nothing is
\* committed, and the catch block runs
AdjustUnavailable(k) ==
    /\ k \in InFlight /\ k.kind = "adjust" /\ k.stage = "sent"
    /\ calls' = Del(k)
    /\ toast' = [toast EXCEPT ![k.client] = ToastAdjustError("StoreUnavailable")]
    /\ UNCHANGED <<store, mounted, loading, inventory, orders, showDialog, selectedItem,
                   accepted>>
    /\ UNCHANGED <<catalog, panel, realtime, now>>

\* handleAdjust after `await response.json()`
HandleAdjustResponse(k) ==
    /\ k \in InFlight /\ k.kind = "adjust" /\ k.stage = "response"
    /\ IF k.ok
       THEN /\ toast' = [toast EXCEPT ![k.client] = ToastAdjusted]
            /\ showDialog' = SetState(k, showDialog, FALSE)
            /\ calls' = Del(k) (+) SetToBag(ReloadAfter(k))
            /\ accepted' = [accepted EXCEPT ![k.payload.inventory_item_id] =
                                @ + k.payload.qty_change]
       ELSE /\ toast' = [toast EXCEPT ![k.client] = ToastAdjustError(k.error)]
            /\ calls' = Del(k)
            /\ UNCHANGED <<showDialog, accepted>>
    /\ UNCHANGED <<store, mounted, loading, inventory, orders, selectedItem>>
    /\ UNCHANGED <<catalog, panel, realtime, now>>

\* ---------------------------------------------------------- OrderList page
\* loadOrders: .from('orders').select('*') answered by the store; with no rows
\* the handler sets the empty list and ends
SelectOrders(k) ==
    /\ k \in InFlight /\ k.kind = "loadOrders" /\ k.stage = "orders"
    /\ IF DOMAIN order_status = {}
       THEN /\ calls' = Del(k)
            /\ orders' = SetState(k, orders, EmptyList)
            /\ loading' = Finally(k, TRUE)
       ELSE /\ calls' = Swap(k, [k EXCEPT !.stage = "order_items", !.data = order_status])
            /\ UNCHANGED <<orders, loading>>
    /\ UNCHANGED <<store, mounted, inventory, showDialog, selectedItem, toast, accepted>>
    /\ UNCHANGED <<catalog, panel, realtime, now>>

\* loadOrders: .from('order_items') answered; setOrders(ordersWithItems);
\* finally setLoading(false)
SelectOrderItems(k) ==
    /\ k \in InFlight /\ k.kind = "loadOrders" /\ k.stage = "order_items"
    /\ calls' = Del(k)
    /\ orders' = SetState(k, orders, k.data)
    /\ loading' = Finally(k, TRUE)
    /\ UNCHANGED <<store, mounted, inventory, showDialog, selectedItem, toast, accepted>>
    /\ UNCHANGED <<catalog, panel, realtime, now>>

\* loadOrders: either query answers with an error; catch, finally
LoadOrdersFails(k) ==
    /\ k \in InFlight /\ k.kind = "loadOrders"
    /\ calls' = Del(k)
    /\ toast' = [toast EXCEPT ![k.client] = ToastLoadOrdersFailed]
    /\ loading' = Finally(k, FALSE)
    /\ UNCHANGED <<store, mounted, inventory, orders, showDialog, selectedItem, accepted>>
    /\ UNCHANGED <<catalog, panel, realtime, now>>

\* a value picked in the status selector of a listed order:
\* handleUpdateStatus up to its await of the update
HandleUpdateStatus(c, orderId, newStatus) ==
    /\ page[c] = "orders" /\ ~loading[c]
    /\ orderId \in DOMAIN orders[c]
    /\ SelectorShown(orders[c][orderId])
    /\ newStatus \in SelectorOptions
    /\ newStatus # orders[c][orderId]
    /\ Room
    /\ calls' = Add([kind |-> "update", client |-> c, instance |-> instance[c],
                     stage |-> "sent",
                     orderId |-> orderId, newStatus |-> newStatus])
    /\ UNCHANGED <<store, view, accepted>>
    /\ UNCHANGED <<catalog, panel, realtime, now>>

\* the store executes the update of the row
UpdateOrder(k) ==
    /\ k \in InFlight /\ k.kind = "update" /\ k.stage = "sent"
    /\ WriteOrderRow(UpdateStatement(OrderRow(k.orderId), k.newStatus))
    /\ calls' = Swap(k, [k EXCEPT !.stage = "response"])
    /\ UNCHANGED <<stock_qty, movements, view, accepted>>
    /\ UNCHANGED <<order_items, products, panel, now>>
    /\ Changed("orders")

\* the store executes the update of another session, whose list is up to date
OtherSessionUpdate(orderId, newStatus) ==
    /\ SelectorShown(order_status[orderId])
    /\ newStatus \in SelectorOptions
    /\ newStatus # order_status[orderId]
    /\ WriteOrderRow(UpdateStatement(OrderRow(orderId), newStatus))
    /\ UNCHANGED <<stock_qty, movements, view, calls, accepted>>
    /\ UNCHANGED <<order_items, products, panel, now>>
    /\ Changed("orders")

\* the store cannot be reached: the update answers with an error, nothing is
\* written, and the catch block runs
UpdateUnavailable(k) ==
    /\ k \in InFlight /\ k.kind = "update" /\ k.stage = "sent"
    /\ calls' = Del(k)
    /\ toast' = [toast EXCEPT ![k.client] = ToastStatusFailed]
    /\ UNCHANGED <<store, mounted, loading, inventory, orders, showDialog, selectedItem,
                   accepted>>
    /\ UNCHANGED <<catalog, panel, realtime, now>>

\* handleUpdateStatus after the await, no error: toast, loadOrders()
HandleUpdateResponse(k) ==
    /\ k \in InFlight /\ k.kind = "update" /\ k.stage = "response"
    /\ toast' = [toast EXCEPT ![k.client] = ToastStatusUpdated]
    /\ calls' = Del(k) (+) SetToBag(ReloadAfter(k))
    /\ UNCHANGED <<store, mounted, loading, inventory, orders, showDialog, selectedItem,
                   accepted>>
    /\ UNCHANGED <<catalog, panel, realtime, now>>

\* ---------------------------------------------------------- Dashboard page
\* loadDashboardData: the orders query answered by the store
SelectTodaysOrders(k) ==
    /\ k \in InFlight /\ k.kind = "loadDashboardData" /\ k.stage = "orders"
    /\ \E ordersData \in OrderedByCreatedAt(
               {OrderRow(o) : o \in {x \in DOMAIN order_status :
                                         order_created_at[x] >= k.today}}) :
          calls' = Swap(k, [k EXCEPT !.stage = "inventory_items",
                                     !.data = [ordersData |-> ordersData]])
    /\ UNCHANGED <<store, view, accepted, catalog, panel, realtime, now>>

\* loadDashboardData: the inventory_items query answered by the store
SelectLowStock(k) ==
    /\ k \in InFlight /\ k.kind = "loadDashboardData" /\ k.stage = "inventory_items"
    /\ calls' = Swap(k, [k EXCEPT !.stage = "products",
                                  !.data = [ordersData |-> k.data.ordersData,
                                            inventoryData |-> InventoryRows]])
    /\ UNCHANGED <<store, view, accepted, catalog, panel, realtime, now>>

\* what the page shows of the dashboard, and what loadDashboardData of k has to
\* show once the count of products is answered
Shown(c) == [stats |-> stats[c], recentOrders |-> recentOrders[c]]
Figures(k, productsCount) ==
    [stats |-> [todaySales |-> TodaySales(k.data.ordersData),
                todayOrders |-> TodayOrders(k.data.ordersData),
                lowStockItems |-> LowStockItems(k.data.inventoryData),
                totalProducts |-> productsCount],
     recentOrders |-> Slice(k.data.ordersData)]
\* what the page shows when loadDashboardData of k ends: setStats and
\* setRecentOrders follow the last query, so a query that throws skips both
DisplayedRecentFirst(k, shown, ok, productsCount) ==
    [stats |-> IF ok THEN Figures(k, productsCount).stats ELSE shown.stats,
     recentOrders |-> IF k.stage = "orders" THEN shown.recentOrders
                      ELSE Slice(k.data.ordersData)]
Displayed(k, shown, ok, productsCount) ==
    IF ok THEN Figures(k, productsCount) ELSE shown

\* loadDashboardData: the count of active products answered; setStats,
\* setRecentOrders; finally setLoading(false)
CountProducts(k) ==
    /\ k \in InFlight /\ k.kind = "loadDashboardData" /\ k.stage = "products"
    /\ LET productsCount == Cardinality({p \in DOMAIN products : products[p].is_active})
           displayed == Displayed(k, Shown(k.client), TRUE, productsCount)
       IN  /\ stats' = SetState(k, stats, displayed.stats)
           /\ recentOrders' = SetState(k, recentOrders, displayed.recentOrders)
    /\ loading' = Finally(k, TRUE)
    /\ calls' = Del(k)
    /\ UNCHANGED <<store, mounted, inventory, orders, showDialog, selectedItem, toast,
                   accepted, catalog, productList, categories, editingProduct,
                   pending, now>>
    /\ versions' = IF DashboardLoadsInFlight = 1 THEN {Snapshot} ELSE versions

\* loadDashboardData: one of its queries answers with an error; catch
\* (console.error), finally setLoading(false)
LoadDashboardFails(k) ==
    /\ k \in InFlight /\ k.kind = "loadDashboardData"
    /\ LET displayed == Displayed(k, Shown(k.client), FALSE, 0)
       IN  /\ stats' = SetState(k, stats, displayed.stats)
           /\ recentOrders' = SetState(k, recentOrders, displayed.recentOrders)
    /\ loading' = Finally(k, FALSE)
    /\ calls' = Del(k)
    /\ UNCHANGED <<store, mounted, inventory, orders, showDialog, selectedItem, toast,
                   accepted, catalog, productList, categories, editingProduct,
                   pending, now>>
    /\ versions' = IF DashboardLoadsInFlight = 1 THEN {Snapshot} ELSE versions

\* ----------------------------------------------------------- Products page
\* loadProducts: the query answered; setProducts(data)
SelectAllProducts(k) ==
    /\ k \in InFlight /\ k.kind = "loadProducts"
    /\ productList' = SetState(k, productList, products)
    /\ SetLoadingAfter(k)
    /\ calls' = Del(k)
    /\ UNCHANGED <<store, mounted, inventory, orders, showDialog, selectedItem, toast,
                   accepted, catalog, stats, recentOrders, categories, editingProduct,
                   realtime, now>>

\* loadProducts: the query answers with an error; catch (toast)
LoadProductsFails(k) ==
    /\ k \in InFlight /\ k.kind = "loadProducts"
    /\ toast' = [toast EXCEPT ![k.client] = ToastLoadProductsFailed]
    /\ SetLoadingAfter(k)
    /\ calls' = Del(k)
    /\ UNCHANGED <<store, mounted, inventory, orders, showDialog, selectedItem,
                   accepted, catalog, panel, realtime, now>>

\* loadCategories: the query answered; setCategories(data)
SelectCategories(k) ==
    /\ k \in InFlight /\ k.kind = "loadCategories"
    /\ categories' = SetState(k, categories, CategoryRows)
    /\ SetLoadingAfter(k)
    /\ calls' = Del(k)
    /\ UNCHANGED <<store, mounted, inventory, orders, showDialog, selectedItem, toast,
                   accepted, catalog, stats, recentOrders, productList, editingProduct,
                   realtime, now>>

\* loadCategories: the query answers with an error; catch (console.error)
LoadCategoriesFails(k) ==
    /\ k \in InFlight /\ k.kind = "loadCategories"
    /\ SetLoadingAfter(k)
    /\ calls' = Del(k)
    /\ UNCHANGED <<store, mounted, inventory, orders, showDialog, selectedItem, toast,
                   accepted, catalog, panel, realtime, now>>

\* the Add button (product = NoItem) or the Edit button of a listed product
HandleOpenProductDialog(c, product) ==
    /\ page[c] = "products" /\ ~loading[c]
    /\ product = NoItem \/ product \in DOMAIN productList[c]
    /\ editingProduct' = [editingProduct EXCEPT ![c] = product]
    /\ showDialog' = [showDialog EXCEPT ![c] = TRUE]
    /\ UNCHANGED <<store, mounted, loading, inventory, orders, selectedItem, toast, calls,
                   accepted, catalog, stats, recentOrders, productList, categories,
                   realtime, now>>

\* the Save button of the dialog, the form holding formData: handleSave up to
\* its await
HandleSave(c, formData) ==
    /\ page[c] = "products" /\ showDialog[c]
    /\ Room
    /\ calls' = Add([kind |-> "handleSave", client |-> c, instance |-> instance[c],
                     stage |-> "sent",
                     id |-> editingProduct[c], productData |-> ProductData(formData)])
    /\ UNCHANGED <<store, view, accepted, catalog, panel, realtime, now>>

\* the Delete button of a listed product, confirmed: handleDelete up to its await
HandleDelete(c, id) ==
    /\ page[c] = "products" /\ ~loading[c]
    /\ id \in DOMAIN productList[c]
    /\ Room
    /\ calls' = Add([kind |-> "handleDelete", client |-> c, instance |-> instance[c],
                     stage |-> "sent",
                     id |-> id])
    /\ UNCHANGED <<store, view, accepted, catalog, panel, realtime, now>>

\* the store executes the update or the insert of handleSave
SaveProduct(k) ==
    /\ k \in InFlight /\ k.kind = "handleSave" /\ k.stage = "sent"
    /\ k.id = NoItem => ProductIds \ DOMAIN products # {}
    /\ Commit(IF k.id = NoItem THEN DbInsertProduct(Database, k.productData)
              ELSE DbUpdateProduct(Database, k.id, k.productData))
    /\ calls' = Swap(k, [k EXCEPT !.stage = "response"])
    /\ UNCHANGED <<movements, order_status, view, accepted, order_created_at,
                   order_amounts, panel, now>>
    /\ Changed("products")

\* the store executes the delete of handleDelete
DeleteProduct(k) ==
    /\ k \in InFlight /\ k.kind = "handleDelete" /\ k.stage = "sent"
    /\ Commit(DbDeleteProduct(Database, k.id))
    /\ calls' = Swap(k, [k EXCEPT !.stage = "response"])
    /\ UNCHANGED <<movements, order_status, view, accepted, order_created_at,
                   order_amounts, panel, now>>
    /\ Changed("products")

\* the statement of handleSave or handleDelete answers with an error, nothing
\* is written; catch (toast)
ProductWriteFails(k) ==
    /\ k \in InFlight /\ k.kind \in {"handleSave", "handleDelete"} /\ k.stage = "sent"
    /\ toast' = [toast EXCEPT ![k.client] =
                    IF k.kind = "handleSave" THEN ToastSaveError ELSE ToastDeleteError]
    /\ calls' = Del(k)
    /\ UNCHANGED <<store, mounted, loading, inventory, orders, showDialog, selectedItem,
                   accepted, catalog, panel, realtime, now>>

\* handleSave after the await, no error: toast, setShowDialog(false), loadProducts()
HandleSaveResponse(k) ==
    /\ k \in InFlight /\ k.kind = "handleSave" /\ k.stage = "response"
    /\ toast' = [toast EXCEPT ![k.client] =
                    IF k.id = NoItem THEN ToastProductAdded ELSE ToastProductUpdated]
    /\ showDialog' = SetState(k, showDialog, FALSE)
    /\ calls' = Swap(k, Of(LoadProductsCall(k.client, "alone"), k.instance))
    /\ UNCHANGED <<store, mounted, loading, inventory, orders, selectedItem,
                   accepted, catalog, panel, realtime, now>>

\* handleDelete after the await, no error: toast, loadProducts()
HandleDeleteResponse(k) ==
    /\ k \in InFlight /\ k.kind = "handleDelete" /\ k.stage = "response"
    /\ toast' = [toast EXCEPT ![k.client] = ToastProductDeleted]
    /\ calls' = Swap(k, Of(LoadProductsCall(k.client, "alone"), k.instance))
    /\ UNCHANGED <<store, mounted, loading, inventory, orders, showDialog, selectedItem,
                   accepted, catalog, panel, realtime, now>>

\* ------------------------------------------------------ change notifications
\* the callback of 'dashboard-orders' or 'dashboard-inventory' runs
OnDashboardChange(c, table) ==
    /\ table \in pending[c]
    /\ Room /\ DashboardLoadsInFlight < MaxLoads
    /\ \E ch \in channels[c] :
          /\ ch.name \in {"dashboard-orders", "dashboard-inventory"}
          /\ ch.table = table
          /\ calls' = Add(Of(LoadDashboardCall(c), ch.instance))
    /\ pending' = [pending EXCEPT ![c] = @ \ {table}]
    /\ stats' = [stats EXCEPT ![c] = OnPostgresChanges(@, ChangeEvent(table))]
    /\ UNCHANGED <<store, view, accepted, catalog, recentOrders, productList,
                   categories, editingProduct, versions, now>>

\* the callback of 'inventory-changes' runs
OnInventoryChange(c) ==
    /\ "inventory_items" \in pending[c]
    /\ Room
    /\ \E ch \in channels[c] :
          /\ ch.name = "inventory-changes"
          /\ calls' = Add(Of(LoadInventoryCall(c), ch.instance))
    /\ pending' = [pending EXCEPT ![c] = @ \ {"inventory_items"}]
    /\ inventory' = [inventory EXCEPT ![c] =
                        OnPostgresChanges(@, ChangeEvent("inventory_items"))]
    /\ UNCHANGED <<store, mounted, loading, orders, showDialog, selectedItem, toast,
                   accepted, catalog, panel, versions, now>>

\* the callback of 'orders-list' runs
OnOrdersChange(c) ==
    /\ "orders" \in pending[c]
    /\ Room
    /\ \E ch \in channels[c] :
          /\ ch.name = "orders-list"
          /\ calls' = Add(Of(LoadOrdersCall(c), ch.instance))
    /\ pending' = [pending EXCEPT ![c] = @ \ {"orders"}]
    /\ orders' = [orders EXCEPT ![c] = OnPostgresChanges(@, ChangeEvent("orders"))]
    /\ UNCHANGED <<store, mounted, loading, inventory, showDialog, selectedItem, toast,
                   accepted, catalog, panel, versions, now>>

\* the realtime client receives a change event of a table none of its channels
\* listens to: no callback runs
DropEvent(c, table) ==
    /\ table \in pending[c]
    /\ ~\E ch \in channels[c] : ch.table = table
    /\ pending' = [pending EXCEPT ![c] = @ \ {table}]
    /\ UNCHANGED <<store, view, calls, accepted, catalog, panel, versions, now>>

\* ------------------------------------------------------------------ router
\* the user follows a link to page p: the page shown unmounts and the cleanup
\* of its effect runs; page p mounts with its initial state and its effect
\* starts the first load and subscribes its channels
Navigate(c, p) ==
    /\ p \in Pages \ {page[c]}
    /\ instance[c] < MaxMounts
    /\ BagCardinality(calls) + Cardinality(MountCalls(c, p)) <= MaxInFlight
    /\ p = "dashboard" => DashboardLoadsInFlight < MaxLoads
    /\ page' = [page EXCEPT ![c] = p]
    /\ instance' = [instance EXCEPT ![c] = @ + 1]
    /\ channels' = [channels EXCEPT ![c] =
                       (@ \ Cleanup(page[c], instance[c]))
                           \cup Subscribe(p, instance[c] + 1)]
    /\ calls' = calls (+) SetToBag({Of(k, instance[c] + 1) : k \in MountCalls(c, p)})
    /\ loading' = [loading EXCEPT ![c] = TRUE]
    /\ inventory' = [inventory EXCEPT ![c] = EmptyList]
    /\ orders' = [orders EXCEPT ![c] = EmptyList]
    /\ showDialog' = [showDialog EXCEPT ![c] = FALSE]
    /\ selectedItem' = [selectedItem EXCEPT ![c] = NoItem]
    /\ stats' = [stats EXCEPT ![c] = NoStats]
    /\ recentOrders' = [recentOrders EXCEPT ![c] = EmptyList]
    /\ productList' = [productList EXCEPT ![c] = EmptyList]
    /\ categories' = [categories EXCEPT ![c] = EmptyList]
    /\ editingProduct' = [editingProduct EXCEPT ![c] = NoItem]
    /\ UNCHANGED <<store, toast, accepted, catalog, realtime, now>>

\* ------------------------------------------------------------ other sessions
\* the clock advances
Tick ==
    /\ now + 1 \in Times
    /\ now' = now + 1
    /\ UNCHANGED <<store, view, calls, accepted, catalog, panel, realtime>>

\* the amounts the point of sale submits with an order of one line of a product
SubmittedAmounts(price) ==
    {[subtotal |-> price, discount |-> d, tax |-> 1, total |-> t] :
        d \in {1, 2}, t \in {price - 1, price}}
\* orders: total = subtotal - discount + tax holds of a row to be persisted
OrderCheck(amounts) == amounts.total = amounts.subtotal - amounts.discount + amounts.tax

\* the point of sale submits an order of one line of an active product; the
\* line keeps the product's name and price; a row whose total does not match
\* is rejected and nothing is written
InsertOrder(p, amounts) ==
    LET o == Cardinality(DOMAIN order_status) + 1
    IN  /\ o \in OrderIds
        /\ p \in DOMAIN products /\ products[p].is_active
        /\ amounts \in SubmittedAmounts(products[p].price)
        /\ UNCHANGED <<stock_qty, movements, view, calls, accepted, products, panel,
                       now>>
        /\ IF OrderCheck(amounts)
           THEN /\ order_status' = order_status @@ (o :> "pending")
                /\ order_created_at' = order_created_at @@ (o :> now)
                /\ order_total' = order_total @@ (o :> amounts.total)
                /\ order_amounts' = order_amounts @@
                       (o :> [subtotal |-> amounts.subtotal,
                              discount |-> amounts.discount, tax |-> amounts.tax])
                /\ order_items' = order_items @@
                       (o :> << [product_id |-> p, name |-> products[p].name,
                                 qty |-> 1, total |-> products[p].price] >>)
                /\ Changed("orders")
           ELSE UNCHANGED <<order_status, order_created_at, order_total,
                            order_amounts, order_items, realtime>>

\* the store executes a statement of the Products page of another session
OtherSessionProductWrite(id, formData) ==
    /\ \/ /\ id \in DOMAIN products
          /\ Commit(DbUpdateProduct(Database, id, ProductData(formData)))
       \/ /\ id \in DOMAIN products
          /\ Commit(DbDeleteProduct(Database, id))
       \/ /\ id \notin DOMAIN products
          /\ id \in DOMAIN DbInsertProduct(Database, ProductData(formData)).products
          /\ Commit(DbInsertProduct(Database, ProductData(formData)))
    /\ UNCHANGED <<movements, order_status, view, calls, accepted, order_created_at,
                   order_amounts, panel, now>>
    /\ Changed("products")

\* ------------------------------------------------------------ specification
NextInventory ==
    \/ \E c \in Clients, item \in Items : HandleOpenDialog(c, item)
    \/ \E c \in Clients : CloseDialog(c)
    \/ \E c \in Clients, text \in QtyTexts, movement_type \in MovementTypes :
          HandleAdjust(c, text, movement_type)
    \/ \E k \in InFlight : SelectInventoryItems(k)
    \/ \E k \in InFlight : SelectProducts(k)
    \/ \E k \in InFlight : LoadInventoryFails(k)
    \/ \E k \in InFlight : AdjustEndpoint(k)
    \/ \E k \in InFlight : AdjustUnavailable(k)
    \/ \E k \in InFlight : HandleAdjustResponse(k)
    \/ \E item \in Items, text \in QtyTexts, movement_type \in MovementTypes :
          OtherSessionAdjust(item, text, movement_type)

NextOrders ==
    \/ \E c \in Clients, orderId \in Orders, newStatus \in Statuses :
          HandleUpdateStatus(c, orderId, newStatus)
    \/ \E k \in InFlight : SelectOrders(k)
    \/ \E k \in InFlight : SelectOrderItems(k)
    \/ \E k \in InFlight : LoadOrdersFails(k)
    \/ \E k \in InFlight : UpdateOrder(k)
    \/ \E k \in InFlight : UpdateUnavailable(k)
    \/ \E k \in InFlight : HandleUpdateResponse(k)
    \/ \E orderId \in Orders, newStatus \in Statuses :
          OtherSessionUpdate(orderId, newStatus)

\* the Dashboard page, with the point of sale and other sessions of the panel
NextDashboard ==
    \/ \E k \in InFlight : SelectTodaysOrders(k)
    \/ \E k \in InFlight : SelectLowStock(k)
    \/ \E k \in InFlight : CountProducts(k)
    \/ \E k \in InFlight : LoadDashboardFails(k)
    \/ \E c \in Clients, table \in Tables : OnDashboardChange(c, table)
    \/ Tick
    \/ \E p \in ProductIds \cap DOMAIN products :
          \E amounts \in SubmittedAmounts(products[p].price) : InsertOrder(p, amounts)
    \/ \E item \in {i \in Items : stock_qty[i] = ReorderLevel[i]} :
          OtherSessionAdjust(item, <<"2">>, "IN")
    \/ \E formData \in {f \in ProductForms : ~f.is_active} :
          OtherSessionProductWrite(1, formData)

\* the OrderList page, with the point of sale adding orders
NextOrderEntry ==
    \/ \E c \in Clients, orderId \in OrderIds, newStatus \in {"ready", "completed"} :
          HandleUpdateStatus(c, orderId, newStatus)
    \/ \E k \in InFlight : SelectOrders(k)
    \/ \E k \in InFlight : SelectOrderItems(k)
    \/ \E k \in InFlight : LoadOrdersFails(k)
    \/ \E k \in InFlight : UpdateOrder(k)
    \/ \E k \in InFlight : UpdateUnavailable(k)
    \/ \E k \in InFlight : HandleUpdateResponse(k)
    \/ \E c \in Clients : OnOrdersChange(c)
    \/ \E p \in ProductIds \cap DOMAIN products :
          \E amounts \in SubmittedAmounts(products[p].price) : InsertOrder(p, amounts)

NextProducts ==
    \/ \E k \in InFlight : SelectAllProducts(k)
    \/ \E k \in InFlight : LoadProductsFails(k)
    \/ \E k \in InFlight : SelectCategories(k)
    \/ \E k \in InFlight : LoadCategoriesFails(k)
    \/ \E c \in Clients, product \in ProductIds \cup {NoItem} :
          HandleOpenProductDialog(c, product)
    \/ \E c \in Clients, formData \in ProductForms : HandleSave(c, formData)
    \/ \E c \in Clients, id \in ProductIds : HandleDelete(c, id)
    \/ \E k \in InFlight : SaveProduct(k)
    \/ \E k \in InFlight : DeleteProduct(k)
    \/ \E k \in InFlight : ProductWriteFails(k)
    \/ \E k \in InFlight : HandleSaveResponse(k)
    \/ \E k \in InFlight : HandleDeleteResponse(k)

\* the four pages with their own writes, and the writes of other sessions that
\* the Dashboard is notified of
NextApp ==
    \/ NextProducts
    \/ \E k \in InFlight : SelectTodaysOrders(k)
    \/ \E k \in InFlight : SelectLowStock(k)
    \/ \E k \in InFlight : CountProducts(k)
    \/ \E k \in InFlight : LoadDashboardFails(k)
    \/ \E c \in Clients, table \in Tables : OnDashboardChange(c, table)
    \/ \E k \in InFlight : SelectInventoryItems(k)
    \/ \E k \in InFlight : SelectProducts(k)
    \/ \E k \in InFlight : LoadInventoryFails(k)
    \/ \E c \in Clients : OnInventoryChange(c)
    \/ \E k \in InFlight : SelectOrders(k)
    \/ \E k \in InFlight : SelectOrderItems(k)
    \/ \E k \in InFlight : LoadOrdersFails(k)
    \/ \E c \in Clients : OnOrdersChange(c)
    \/ \E c \in Clients, orderId \in Orders, newStatus \in {"ready", "completed"} :
          HandleUpdateStatus(c, orderId, newStatus)
    \/ \E k \in InFlight : UpdateOrder(k)
    \/ \E k \in InFlight : UpdateUnavailable(k)
    \/ \E k \in InFlight : HandleUpdateResponse(k)
    \/ \E orderId \in Orders : OtherSessionUpdate(orderId, "confirmed")
    \/ \E item \in {1} : OtherSessionAdjust(item, <<"2">>, "IN")

Next ==
    \/ NextInventory \/ NextOrders \/ NextDashboard \/ NextProducts
    \/ \E c \in Clients, p \in Pages : Navigate(c, p)
    \/ \E c \in Clients, table \in Tables : DropEvent(c, table)
    \/ \E c \in Clients : OnInventoryChange(c)
    \/ \E c \in Clients : OnOrdersChange(c)

\* every client on the Inventory page
InitInventory == Init /\ page = [c \in Clients |-> "inventory"]
SpecInventory == InitInventory /\ [][NextInventory]_vars

\* every client on the OrderList page
InitOrders == Init /\ page = [c \in Clients |-> "orders"]
SpecOrders == InitOrders /\ [][NextOrders]_vars

SpecOrderEntry == InitOrders /\ [][NextOrderEntry]_vars

\* every client on the Dashboard page
InitDashboard == Init /\ page = [c \in Clients |-> "dashboard"]
SpecDashboard == InitDashboard /\ [][NextDashboard]_vars

\* every client on the Products page
InitProducts == Init /\ page = [c \in Clients |-> "products"]
SpecProducts == InitProducts /\ [][NextProducts]_vars

\* the Dashboard page whose handlers and callbacks, once they can run, do run
SpecDashboardFair ==
    /\ SpecDashboard
    /\ WF_vars(\E k \in InFlight : SelectTodaysOrders(k))
    /\ WF_vars(\E k \in InFlight : SelectLowStock(k))
    /\ WF_vars(\E k \in InFlight : CountProducts(k))
    /\ WF_vars(\E c \in Clients, table \in Tables : OnDashboardChange(c, table))

\* the Inventory and OrderList pages when every change notification is lost,
\* the store answers every read and no other session writes
NextExplicitReads ==
    \/ \E c \in Clients, item \in Items : HandleOpenDialog(c, item)
    \/ \E c \in Clients : CloseDialog(c)
    \/ \E c \in Clients, movement_type \in {"IN", "OUT"} :
          HandleAdjust(c, <<"2">>, movement_type)
    \/ \E k \in InFlight : SelectInventoryItems(k)
    \/ \E k \in InFlight : SelectProducts(k)
    \/ \E k \in InFlight : AdjustEndpoint(k)
    \/ \E k \in InFlight : AdjustUnavailable(k)
    \/ \E k \in InFlight : HandleAdjustResponse(k)
    \/ \E c \in Clients, orderId \in Orders, newStatus \in {"ready", "completed"} :
          HandleUpdateStatus(c, orderId, newStatus)
    \/ \E k \in InFlight : SelectOrders(k)
    \/ \E k \in InFlight : SelectOrderItems(k)
    \/ \E k \in InFlight : UpdateOrder(k)
    \/ \E k \in InFlight : UpdateUnavailable(k)
    \/ \E k \in InFlight : HandleUpdateResponse(k)

\* a client on the Inventory or the OrderList page; each of its handlers, once
\* the answer it awaits has arrived, continues
InitExplicitReads == Init /\ \A c \in Clients : page[c] \in {"inventory", "orders"}
SpecExplicitReads ==
    /\ InitExplicitReads /\ [][NextExplicitReads]_vars
    /\ WF_vars(\E k \in InFlight : SelectInventoryItems(k))
    /\ WF_vars(\E k \in InFlight : SelectProducts(k))
    /\ \A item \in Items :
          WF_vars(\E k \in InFlight :
                     /\ k.kind = "adjust" /\ k.ok /\ k.payload.inventory_item_id = item
                     /\ HandleAdjustResponse(k))
    /\ WF_vars(\E k \in InFlight : SelectOrders(k))
    /\ WF_vars(\E k \in InFlight : SelectOrderItems(k))
    /\ WF_vars(\E k \in InFlight : HandleUpdateResponse(k))

\* a client that moves between the pages while other sessions write
NextNavigation ==
    \/ \E c \in Clients, p \in Pages : Navigate(c, p)
    \/ \E k \in InFlight : SelectInventoryItems(k)
    \/ \E k \in InFlight : SelectProducts(k)
    \/ \E k \in InFlight : SelectOrders(k)
    \/ \E k \in InFlight : SelectOrderItems(k)
    \/ \E k \in InFlight : SelectTodaysOrders(k)
    \/ \E k \in InFlight : SelectLowStock(k)
    \/ \E k \in InFlight : CountProducts(k)
    \/ \E k \in InFlight : SelectAllProducts(k)
    \/ \E k \in InFlight : SelectCategories(k)
    \/ \E c \in Clients, table \in Tables : OnDashboardChange(c, table)
    \/ \E c \in Clients : OnInventoryChange(c)
    \/ \E c \in Clients : OnOrdersChange(c)
    \/ \E c \in Clients, table \in Tables : DropEvent(c, table)
    \/ \E item \in {1} : OtherSessionAdjust(item, <<"2">>, "IN")
    \/ \E orderId \in Orders : OtherSessionUpdate(orderId, "confirmed")

SpecNavigation == Init /\ [][NextNavigation]_vars

\* a client on any page
SpecApp == Init /\ [][NextApp]_vars

\* a client on any page, the adjustments of the Inventory page included
NextLoading ==
    \/ NextApp
    \/ \E c \in Clients : HandleOpenDialog(c, 1)
    \/ \E c \in Clients : HandleAdjust(c, <<"2">>, "IN")
    \/ \E k \in InFlight : AdjustEndpoint(k)
    \/ \E k \in InFlight : AdjustUnavailable(k)
    \/ \E k \in InFlight : HandleAdjustResponse(k)
SpecLoading == Init /\ [][NextLoading]_vars

Spec == Init /\ [][Next]_vars

\* ------------------------------------------------------------------ claims
RECURSIVE SumAnswered(_, _)
\* the sum of qty_change of the adjust calls in K answered 2xx for item, with
\* their multiplicity in `calls`
SumAnswered(K, item) ==
    IF K = {} THEN 0
    ELSE LET k == CHOOSE x \in K : TRUE
         IN  (IF k.stage = "response" /\ k.ok /\ k.payload.inventory_item_id = item
              THEN CopiesIn(k, calls) * k.payload.qty_change ELSE 0)
             + SumAnswered(K \ {k}, item)

Committed(n) == Len(movements) = Len(InitialMovements) + n
Answered(k, ok, error) == [k EXCEPT !.stage = "response", !.ok = ok, !.error = error]
Magnitude(k) == Abs(k.qtyChange.value)
SignAgrees(m) ==
    /\ m.qty_change # 0
    /\ m.movement_type = "IN" => m.qty_change > 0
    /\ m.movement_type = "OUT" => m.qty_change < 0

\* C1: in every reachable state the cached stock_qty of every item equals the
\* signed sum of the qty_change of the movements committed for it (a movement
\* and its change of stock_qty are never observable one without the other).
C1_LedgerCacheConsistent ==
    \A i \in Items : stock_qty[i] = SumMovements(movements, i)

C1_Witness ==
    /\ \E j, l \in DOMAIN movements :
          /\ j > Len(InitialMovements) /\ l > j
          /\ movements[j].movement_type = "IN" /\ movements[l].movement_type = "OUT"
          /\ movements[j].inventory_item_id = movements[l].inventory_item_id
    /\ stock_qty = InitialStock

\* C2: stock_qty of every item is non-negative in every reachable state,
\* whatever adjustments were accepted or rejected.
C2_StockNonNegative ==
    \A i \in Items : stock_qty[i] >= 0

C2_Witness ==
    /\ \E c \in Clients : toast[c] = ToastAdjustError("InsufficientStock")
    /\ calls = EmptyBag
    /\ Committed(0)
    /\ \E i \in Items : stock_qty[i] > 0

\* C3: when the endpoint executes an OUT adjust whose magnitude exceeds the
\* item's current stock_qty, it answers InsufficientStock, stock_qty is
\* unchanged and no movement is appended.
C3_OutBeyondStockRejected ==
    [][\A k \in AdjustCalls :
          (/\ AdjustEndpoint(k)
           /\ k.payload.movement_type = "OUT"
           /\ Magnitude(k) > stock_qty[k.payload.inventory_item_id])
          => /\ stock_qty' = stock_qty
             /\ movements' = movements
             /\ calls' = Swap(k, Answered(k, FALSE, "InsufficientStock"))]_vars

C3_Witness ==
    \E k \in AdjustCalls :
        /\ k = Answered(k, FALSE, "InsufficientStock")
        /\ k.payload.movement_type = "OUT"
        /\ Magnitude(k) > stock_qty[k.payload.inventory_item_id]
        /\ stock_qty = InitialStock /\ movements = InitialMovements

\* C4: whatever the interleaving of concurrent adjusts, stock_qty of every item
\* equals its initial value plus the sum of qty_change of exactly the adjusts
\* that were answered as accepted.
C4_NoLostUpdate ==
    \A i \in Items :
        stock_qty[i] = InitialStock[i] + accepted[i] + SumAnswered(AdjustCalls, i)

C4_Witness ==
    \E i \in Items :
        LET K == {k \in AdjustCalls : k.stage = "response" /\ k.ok
                                      /\ k.payload.inventory_item_id = i}
        IN  /\ BagCardinality([k \in K |-> CopiesIn(k, calls)]) >= 2
            /\ stock_qty[i] # InitialStock[i]

\* C5: once an order is completed or cancelled its persisted status never
\* changes again (a transition requested from a terminal status is refused).
C5_TerminalNeverChanges ==
    [][\A o \in Orders :
          order_status[o] \in TerminalStatuses => order_status'[o] = order_status[o]]_vars

\* C6: the qty_change submitted is +magnitude for IN, -magnitude for OUT and,
\* for ADJUST, the quantity as entered, its sign preserved.
C6_SignFromType ==
    \A k \in AdjustCalls :
        k.payload.qty_change =
            CASE k.payload.movement_type = "IN" -> Magnitude(k)
              [] k.payload.movement_type = "OUT" -> 0 - Magnitude(k)
              [] k.payload.movement_type = "ADJUST" -> k.qtyChange.value

\* the texts of the quantity field that are not a number or are <= 0, and
\* those that are not a number or are zero
NonPositiveTexts ==
    {text \in QtyTexts : IsNaN(ParseFloat(text)) \/ ParseFloat(text).value <= 0}
ZeroOrNaNTexts ==
    {text \in QtyTexts : IsNaN(ParseFloat(text)) \/ ParseFloat(text).value = 0}

C8_SignAgreesWithType ==
    /\ \A k \in AdjustCalls : SignAgrees(k.payload)
    /\ \A j \in DOMAIN movements : SignAgrees(movements[j])

C8_Witness ==
    /\ \E k \in AdjustCalls :
          /\ k.stage = "sent" /\ k.payload.movement_type = "OUT"
          /\ k.qtyChange.value > 0 /\ k.payload.qty_change < 0
    /\ \E j \in DOMAIN movements :
          j > Len(InitialMovements) /\ movements[j].movement_type = "ADJUST"

\* C9: when the endpoint executes an IN adjust of magnitude m, it accepts it,
\* stock_qty of the item grows by exactly m, exactly one movement with
\* qty_change = +m is appended, and no other item's stock_qty changes.
C9_InAddsMagnitude ==
    [][\A k \in AdjustCalls :
          (AdjustEndpoint(k) /\ k.payload.movement_type = "IN")
          => /\ stock_qty' = [stock_qty EXCEPT ![k.payload.inventory_item_id] =
                                 @ + Magnitude(k)]
             /\ movements' = Append(movements,
                    [inventory_item_id |-> k.payload.inventory_item_id,
                     qty_change |-> Magnitude(k), movement_type |-> "IN"])
             /\ calls' = Swap(k, Answered(k, TRUE, ""))]_vars

C9_Witness ==
    \E k \in AdjustCalls :
        /\ k = Answered(k, TRUE, "")
        /\ k.payload.movement_type = "IN"
        /\ k.qtyChange.value < 0
        /\ Committed(1)
        /\ stock_qty = [InitialStock EXCEPT ![k.payload.inventory_item_id] =
                            @ + Magnitude(k)]

\* C10: an update that the store executes on an order whose persisted status is
\* not terminal sets the status to the requested one, whichever it is, and the
\* selector of a listed non-terminal order offers every other status.
C10_AnyMoveFromNonTerminal ==
    /\ [][\A k \in UpdateCalls :
            (UpdateOrder(k) /\ order_status[k.orderId] \notin TerminalStatuses)
            => order_status' = [order_status EXCEPT ![k.orderId] = k.newStatus]]_vars
    /\ [](\A c \in Clients, o \in Orders :
            (/\ page[c] = "orders" /\ ~loading[c] /\ Room
             /\ o \in DOMAIN orders[c]
             /\ orders[c][o] \notin TerminalStatuses)
            => \A t \in Statuses \ {orders[c][o]} : ENABLED HandleUpdateStatus(c, o, t))

C10_Witness ==
    \E k \in UpdateCalls :
        /\ k.stage = "response" /\ k.newStatus = "ready"
        /\ orders[k.client][k.orderId] = "pending"
        /\ order_status[k.orderId] = "ready"

\* ------------------------------------------------- claims on the dashboard
RECURSIVE SumTotals(_)
\* the sum of orders.total over the orders S
SumTotals(S) ==
    IF S = {} THEN 0
    ELSE LET o == CHOOSE x \in S : TRUE IN order_total[o] + SumTotals(S \ {o})

\* the orders created at or after the instant t
OrdersSince(t) == {o \in DOMAIN order_status : order_created_at[o] >= t}
RECURSIVE SumOf(_, _)
\* the sum of f over S
SumOf(f, S) ==
    IF S = {} THEN 0
    ELSE LET o == CHOOSE x \in S : TRUE IN f[o] + SumOf(f, S \ {o})
\* the figures of the contents v of the store, for a day that starts at today
FiguresOf(v, today) ==
    LET S == {o \in DOMAIN v.created_at : v.created_at[o] >= today}
    IN  [todaySales |-> SumOf(v.total, S),
         todayOrders |-> Cardinality(S),
         lowStockItems |-> Cardinality(v.low),
         totalProducts |-> Cardinality(v.active)]
\* the ids of the rows of a query result
IdsOf(rows) == {rows[i].id : i \in DOMAIN rows}
\* the answers a query of orders could give, whatever its filter and ties
AnyOrdersAnswer ==
    UNION {OrderedByCreatedAt({OrderRow(o) : o \in S}) : S \in SUBSET DOMAIN order_status}
\* call k got the answer x of its orders query
GotOrders(k, x) ==
    calls' = Swap(k, [k EXCEPT !.stage = "inventory_items",
                               !.data = [ordersData |-> x]])

\* C11: the four figures that one loadDashboardData sets are those of one state
\* of the store, one of the contents the store had while the handler ran:
\* they never combine a value read before a write with one read after it.
C11_FiguresOfOneState ==
    [][\A k \in DashboardCalls :
          CountProducts(k) =>
            \E v \in versions : stats'[k.client] = FiguresOf(v, k.today)]_vars

\* C12: lowStockItems is the number of the inventory items read with
\* stock_qty <= reorder_level, equality included, and isLowStock of the
\* Inventory page flags exactly the items the dashboard counts.
C12_LowStockInclusive ==
    [][\A k \in DashboardCalls :
          CountProducts(k) =>
            LET rows == k.data.inventoryData
            IN  /\ stats'[k.client].lowStockItems =
                     Cardinality({i \in DOMAIN rows :
                                     rows[i].stock_qty <= rows[i].reorder_level})
                /\ \A i \in DOMAIN rows :
                     /\ IsLowStock(rows[i]) <=> LowStockFilter(rows[i])
                     /\ IsLowStock(rows[i]) <=>
                            rows[i].stock_qty <= rows[i].reorder_level]_vars

C12_Witness ==
    \E c \in Clients :
        /\ page[c] = "dashboard" /\ ~loading[c]
        /\ stock_qty[1] = ReorderLevel[1] /\ stock_qty[2] < ReorderLevel[2]
        /\ stats[c].lowStockItems = 2
        /\ IsLowStock(InventoryRows[1])

\* the orders of the store, most recent first, ties on created_at by id descending
MostRecentOrders ==
    CHOOSE rows \in OrderedByCreatedAt({OrderRow(o) : o \in DOMAIN order_status}) :
        \A i, j \in DOMAIN rows :
            (i < j /\ rows[i].created_at = rows[j].created_at) => rows[i].id > rows[j].id

\* C13: the list a loadDashboardData reads for recentOrders is the 10 most
\* recent orders of the store by created_at descending, ties by id descending:
\* min(10, number of orders) entries, always in that one order.
C13_TenMostRecent ==
    [][\A k \in DashboardCalls :
          SelectTodaysOrders(k) =>
            \E x \in AnyOrdersAnswer :
                GotOrders(k, x) /\ Slice(x) = Slice(MostRecentOrders)]_vars

\* C14: the orders a loadDashboardData reads are exactly those with
\* created_at >= the start of the day of the call; todaySales is the sum of
\* their totals and todayOrders their number, both 0 when there is none.
C14_TodaysOrders ==
    /\ [](\A k \in DashboardCalls : k.today <= now /\ k.today % TicksPerDay = 0)
    /\ [][\A k \in DashboardCalls :
            /\ SelectTodaysOrders(k) =>
                 \E x \in AnyOrdersAnswer :
                     GotOrders(k, x) /\ IdsOf(x) = OrdersSince(k.today)
            /\ CountProducts(k) =>
                 LET S == IdsOf(k.data.ordersData)
                 IN  /\ stats'[k.client].todaySales = SumTotals(S)
                     /\ stats'[k.client].todayOrders = Cardinality(S)
                     /\ S = {} => /\ stats'[k.client].todaySales = 0
                                  /\ stats'[k.client].todayOrders = 0]_vars

C14_Witness ==
    \E c \in Clients :
        /\ page[c] = "dashboard" /\ ~loading[c]
        /\ now = 2 * TicksPerDay - 2
        /\ \E o \in DOMAIN order_status :
              /\ order_created_at[o] = StartOfDay(now)
              /\ OrdersSince(StartOfDay(now)) = {o}
              /\ stats[c].todaySales = order_total[o]
        /\ stats[c].todayOrders = 1
        /\ \E o \in DOMAIN order_status : order_created_at[o] < StartOfDay(now)
\* an error toast
IsErrorToast(t) == Len(t) > 0 /\ t[1] = "error"
\* the number of products with is_active
ActiveProducts == Cardinality({p \in DOMAIN products : products[p].is_active})

\* C15: stock_qty changes only in a step of the adjust endpoint: no product
\* write, order status update, page load or notification callback changes it.
C15_OnlyAdjustWritesStock ==
    [][stock_qty' # stock_qty =>
          \/ \E k \in AdjustCalls : AdjustEndpoint(k)
          \/ \E item \in Items, text \in QtyTexts, movement_type \in MovementTypes :
                OtherSessionAdjust(item, text, movement_type)]_vars

C15_Witness ==
    /\ 1 \notin DOMAIN products
    /\ \E o \in Orders : order_status[o] # "pending"
    /\ stock_qty[1] = InitialStock[1] + 2
    /\ Committed(1)

\* C16: a notification callback only starts a reload and leaves what the page
\* shows as it is; the inventory list, the order list and the dashboard figures
\* change only when a load sets them from what it read from the store.
C16_NotificationOnlyReloads ==
    [][/\ \A c \in Clients :
            (\/ \E table \in Tables : OnDashboardChange(c, table)
             \/ OnInventoryChange(c)
             \/ OnOrdersChange(c))
            => UNCHANGED <<inventory, orders, stats, recentOrders>>
       /\ inventory' # inventory =>
            \E k \in InFlight : SelectProducts(k) /\ inventory'[k.client] = k.data
       /\ orders' # orders =>
            \E k \in InFlight :
                \/ SelectOrders(k) /\ orders'[k.client] = EmptyList
                \/ SelectOrderItems(k) /\ orders'[k.client] = k.data
       /\ <<stats, recentOrders>>' # <<stats, recentOrders>> =>
            \E k \in InFlight :
                /\ CountProducts(k)
                /\ recentOrders'[k.client] = Slice(k.data.ordersData)
                /\ stats'[k.client].todayOrders = Len(k.data.ordersData)]_vars

C16_Witness ==
    \E c \in Clients, k \in DashboardCalls :
        /\ page[c] = "dashboard" /\ ~loading[c]
        /\ k.stage = "orders" /\ pending[c] = {}
        /\ stats[c].lowStockItems = 2 /\ stock_qty[1] > ReorderLevel[1]

\* C17: every failure of a read or write of the store that a page issued shows
\* the user an error.
C17_FailuresSurfaced ==
    [][\A k \in InFlight :
          (\/ LoadDashboardFails(k) \/ LoadCategoriesFails(k) \/ LoadProductsFails(k)
           \/ LoadInventoryFails(k) \/ LoadOrdersFails(k) \/ UpdateUnavailable(k)
           \/ ProductWriteFails(k))
          => IsErrorToast(toast'[k.client])]_vars

\* C18: after a change of the products the dashboard eventually shows their
\* number: whenever the number of active products is n, the dashboard comes to
\* show totalProducts = n, unless the number changes again first.
C18_ProductsReflected ==
    \A c \in Clients, n \in 0..Cardinality(ProductIds) :
        (page[c] = "dashboard" /\ ActiveProducts = n)
            ~> (stats[c].totalProducts = n \/ ActiveProducts # n)

\* C19: what a loadDashboardData reads for a given start of day is a function
\* of the contents of the store: the store can give only one answer to its
\* orders query, and no step of the handler writes to the store.
C19_OneAnswer ==
    /\ [](\A k \in DashboardCalls :
            k.stage = "orders" =>
              Cardinality(OrderedByCreatedAt(
                  {OrderRow(o) : o \in OrdersSince(k.today)})) = 1)
    /\ [][\A k \in DashboardCalls :
            (\/ SelectTodaysOrders(k) \/ SelectLowStock(k) \/ CountProducts(k)
             \/ LoadDashboardFails(k))
            => UNCHANGED <<store, catalog>>]_vars

\* C20: a product update, insert or delete leaves every row of order_items
\* and the total of every order as they were.
C20_OrderItemsWriteOnce ==
    [][\A k \in InFlight :
          (SaveProduct(k) \/ DeleteProduct(k))
          => UNCHANGED <<order_items, order_total>>]_vars

C20_Witness ==
    /\ \E p \in DOMAIN products :
          \E o \in DOMAIN order_items : \E l \in DOMAIN order_items[o] :
              /\ order_items[o][l].product_id = p
              /\ order_items[o][l].name # products[p].name
    /\ order_items = InitialOrderItems

\* --------------------------------------------------------------------- C21
TotalMatches(o) ==
    order_total[o] =
        order_amounts[o].subtotal - order_amounts[o].discount + order_amounts[o].tax

\* C21: every persisted order has total = subtotal - discount + tax; a step
\* that changes the status of an order leaves its subtotal, discount, tax and
\* total as they were; and an order submitted with a total that does not match
\* is not persisted.
C21_TotalMatches ==
    /\ [](\A o \in DOMAIN order_status : TotalMatches(o))
    /\ [][\A o \in DOMAIN order_status :
              order_status'[o] # order_status[o]
                  => /\ order_total'[o] = order_total[o]
                     /\ order_amounts'[o] = order_amounts[o]]_vars
    /\ [][\A p \in ProductIds \cap DOMAIN products :
              \A amounts \in SubmittedAmounts(products[p].price) :
                  InsertOrder(p, amounts) /\ ~OrderCheck(amounts)
                      => UNCHANGED <<store, catalog>>]_vars

\* an order persisted with a discount and a tax, whose status this client has
\* since set to completed
C21_Witness ==
    \E o \in DOMAIN order_status \ Orders :
        /\ order_amounts[o].discount = 2 /\ order_total[o] = 1
        /\ order_status[o] = "completed"
        /\ \E c \in Clients : toast[c] = ToastStatusUpdated

\* --------------------------------------------------------------------- C22
\* the adjust of client c on item was answered 2xx, or its update of order o
\* was executed
AdjustSucceeded(c, item) ==
    \E k \in AdjustCalls :
        /\ k.client = c /\ k.stage = "response" /\ k.ok
        /\ k.payload.inventory_item_id = item
UpdateSucceeded(c, o) ==
    \E k \in UpdateCalls : k.client = c /\ k.stage = "response" /\ k.orderId = o

C23_SubscriptionsOfMountedPage ==
    /\ [](\A c \in Clients : channels[c] = Subscribe(page[c], instance[c]))
    /\ [][\A c \in Clients :
              pending'[c] # pending[c] /\ pending'[c] \subseteq pending[c]
                  => \A k \in BagToSet(calls') :
                         (k.client = c /\ CopiesIn(k, calls') > CopiesIn(k, calls))
                             => k.instance = instance[c]]_vars

\* the client left the Dashboard with a change event undelivered and came back
\* to it: the channels are those of the new instance
C23_Witness ==
    \E c \in Clients :
        /\ page[c] = "dashboard" /\ instance[c] = 3
        /\ pending[c] # {}
        /\ Cardinality(channels[c]) = 2
        /\ \E k \in DashboardCalls : k.instance = 3 /\ k.stage = "inventory_items"

\* --------------------------------------------------------------------- C24
\* C24: when no loadInventory of a client is in flight, no change event waits
\* to be delivered to it and none of its loads has failed, the inventory list
\* it displays is the store's: a load that read the store earlier has not
\* overwritten the result of one that read it later.
C24_LatestReadDisplayed ==
    \A c \in Clients :
        (/\ page[c] = "inventory" /\ ~loading[c]
         /\ pending[c] = {}
         /\ ~\E k \in InFlight : k.client = c /\ k.kind = "loadInventory"
         /\ toast[c] = ToastNone)
        => inventory[c] = stock_qty

\* --------------------------------------------------------------------- C25
\* C25: a status update is requested only for an order that the order list of
\* the client shows as pending, confirmed, preparing or ready, and the selector
\* is shown for exactly the listed orders with one of these statuses.
C25_RequestOnlyForNonTerminalListed ==
    /\ [][\A k \in BagToSet(calls') :
              (/\ k.kind = "update" /\ k.stage = "sent"
               /\ CopiesIn(k, calls') > CopiesIn(k, calls))
              => /\ k.orderId \in DOMAIN orders[k.client]
                 /\ orders[k.client][k.orderId]
                        \in {"pending", "confirmed", "preparing", "ready"}]_vars
    /\ [](\A c \in Clients : \A o \in DOMAIN orders[c] :
              SelectorShown(orders[c][o])
                  <=> orders[c][o] \in {"pending", "confirmed", "preparing", "ready"})

\* a request in flight for an order the list shows as ready and the store
\* already holds as completed
C25_Witness ==
    \E k \in UpdateCalls :
        /\ k.stage = "sent"
        /\ orders[k.client][k.orderId] = "ready"
        /\ order_status[k.orderId] = "completed"

FirstLoads(c) ==
    {k \in InFlight :
        /\ k.client = c /\ Mounted(k)
        /\ CASE page[c] = "dashboard" -> k.kind = "loadDashboardData"
             [] page[c] = "inventory" -> k.kind = "loadInventory"
             [] page[c] = "orders" -> k.kind = "loadOrders"
             [] page[c] = "products" ->
                    /\ k.kind \in {"loadProducts", "loadCategories"}
                    /\ k.group = "loadData"}

\* C27: a page is in its loading state only while a load of it is still
\* waiting for the store (once the first load has ended, with or without an
\* error, loading is false), and no step of a mounted page sets loading back
\* to true.
C27_LoadingEnds ==
    /\ [](\A c \in Clients : loading[c] => FirstLoads(c) # {})
    /\ [][\A c \in Clients : ~loading[c] => ~loading'[c]]_vars

\* the first load of the Inventory page has failed (the list is still empty),
\* loading is false, and a reload is in flight
C27_Witness ==
    \E c \in Clients :
        /\ page[c] = "inventory" /\ inventory[c] = EmptyList
        /\ ~loading[c] /\ FirstLoads(c) # {}

====
